---- MODULE Spec2Model ----
(***************************************************************************)
(* Recipe recommendation engine of yummy-food-time-v2: the /recommend      *)
(* endpoint (Smart Match and Quick Pick), the AI-tag write-back, the usage *)
(* ledger and the two batch tagging jobs, as a state machine over the      *)
(* meals and ai_usage tables.                                              *)
(***************************************************************************)
EXTENDS Integers, Sequences, FiniteSets, TLC

(* ---------------------------------------------------------------------- *)
(* Strings.  TLC strings support Len, SubSeq and \o; the JavaScript and    *)
(* SQL string functions the handler uses are computed character by        *)
(* character.                                                              *)
(* ---------------------------------------------------------------------- *)

UpperChars == "ABCDEFGHIJKLMNOPQRSTUVWXYZ"

LowerChars == "abcdefghijklmnopqrstuvwxyz"

CharAt(s, i) == SubSeq(s, i, i)

Rest(s) == SubSeq(s, 2, Len(s))

LowerChar(c) ==
    IF \E i \in 1..Len(UpperChars) : CharAt(UpperChars, i) = c
    THEN CharAt(LowerChars, CHOOSE i \in 1..Len(UpperChars) : CharAt(UpperChars, i) = c)
    ELSE c

RECURSIVE toLowerCase(_)
toLowerCase(s) ==
    IF Len(s) = 0 THEN "" ELSE LowerChar(CharAt(s, 1)) \o toLowerCase(Rest(s))

includes(s, sub) ==
    \E i \in 1..(Len(s) - Len(sub) + 1) : SubSeq(s, i, i + Len(sub) - 1) = sub

startsWith(s, prefix) ==
    Len(s) >= Len(prefix) /\ SubSeq(s, 1, Len(prefix)) = prefix

(* SQL LIKE: % matches any run of characters, _ any one character. *)
RECURSIVE Like(_, _)
Like(s, pat) ==
    IF Len(pat) = 0 THEN Len(s) = 0
    ELSE IF CharAt(pat, 1) = "%"
         THEN Like(s, Rest(pat)) \/ (Len(s) > 0 /\ Like(Rest(s), pat))
         ELSE /\ Len(s) > 0
              /\ (CharAt(pat, 1) = "_" \/ CharAt(pat, 1) = CharAt(s, 1))
              /\ Like(Rest(s), Rest(pat))

ILike(s, pat) == Like(toLowerCase(s), toLowerCase(pat))

(* ---------------------------------------------------------------------- *)
(* JavaScript values.  node-postgres hands a bigint column (every SQL      *)
(* SQL count) to JavaScript as a string of digits; === compares type and   *)
(* value, the relational operators convert both sides to numbers.          *)
(* ---------------------------------------------------------------------- *)

JsNumber(n) == [t |-> "number", v |-> n]

JsString(s) == [t |-> "string", v |-> s]

Digits == "0123456789"

DigitValue(c) == (CHOOSE i \in 1..Len(Digits) : CharAt(Digits, i) = c) - 1

RECURSIVE ParseDigits(_, _)
ParseDigits(s, acc) ==
    IF Len(s) = 0 THEN acc
    ELSE ParseDigits(Rest(s), 10 * acc + DigitValue(CharAt(s, 1)))

ToNumber(a) == IF a.t = "number" THEN a.v ELSE ParseDigits(a.v, 0)

StrictEquals(a, b) == a.t = b.t /\ a.v = b.v

\* A bigint count column of a result row, as pool.query returns it.
PgCount(n) == JsString(ToString(n))

(* ---------------------------------------------------------------------- *)
(* Tag normalizer                                                          *)
(* ---------------------------------------------------------------------- *)

RECURSIVE split(_, _)
split(s, sep) ==
    IF ~includes(s, sep) THEN <<s>>
    ELSE LET i == CHOOSE k \in 1..Len(s) :
                      /\ CharAt(s, k) = sep
                      /\ \A m \in 1..(k - 1) : CharAt(s, m) # sep
         IN  <<SubSeq(s, 1, i - 1)>> \o split(SubSeq(s, i + 1, Len(s)), sep)

filterArray(filters) ==
    IF filters = "" THEN <<>>
    ELSE SelectSeq(split(filters, ","), LAMBDA f : f # "")

filterToTagMap ==
    [f \in {"main-dish", "salad", "side-dish", "dessert", "appetizer", "soup",
            "healthy", "quick", "filling", "comfort", "complex"} |->
        CASE f = "main-dish" -> "Main Dish"
          [] f = "salad"     -> "Salad"
          [] f = "side-dish" -> "Side Dish"
          [] f = "dessert"   -> "Dessert"
          [] f = "appetizer" -> "Appetizer"
          [] f = "soup"      -> "Soup"
          [] f = "healthy"   -> "Healthy"
          [] f = "quick"     -> "Quick (< 30 min)"
          [] f = "filling"   -> "Hearty"
          [] f = "comfort"   -> "Comfort Food"
          [] f = "complex"   -> "Hard"]

\* filterToTagMap is an object literal: a property read that finds no own
\* property goes on to Object.prototype, whose properties are functions
\* (and, under __proto__, the prototype object itself).
ObjectPrototype ==
    [k \in {"constructor", "hasOwnProperty", "isPrototypeOf", "propertyIsEnumerable",
            "toLocaleString", "toString", "valueOf", "__defineGetter__",
            "__defineSetter__", "__lookupGetter__", "__lookupSetter__", "__proto__"} |->
        IF k = "__proto__" THEN [t |-> "object", v |-> k] ELSE [t |-> "function", v |-> k]]

JsUndefined == [t |-> "undefined", v |-> ""]

\* filterToTagMap[f]
GetProperty(f) ==
    IF f \in DOMAIN filterToTagMap THEN JsString(filterToTagMap[f])
    ELSE IF f \in DOMAIN ObjectPrototype THEN ObjectPrototype[f]
    ELSE JsUndefined

\* Boolean(a): the empty string and undefined are falsy, functions and objects truthy
Boolean(a) ==
    CASE a.t = "string" -> a.v # ""
      [] a.t = "undefined" -> FALSE
      [] OTHER -> TRUE

\* filterToTagMap[f] || f
MapFilter(f) == IF Boolean(GetProperty(f)) THEN GetProperty(f) ELSE JsString(f)

\* tagFilters, as the JavaScript values the array holds
tagFiltersOf(filters) ==
    LET kept == SelectSeq(filterArray(filters), LAMBDA f : ~startsWith(f, "any-"))
        mapped == [i \in 1..Len(kept) |-> MapFilter(kept[i])]
    IN  SelectSeq(mapped, LAMBDA a : Boolean(a))

\* the strings of an array of JavaScript strings
StringsOf(values) == [i \in 1..Len(values) |-> values[i].v]

AllStrings(values) == \A i \in 1..Len(values) : values[i].t = "string"

(* Synonym expansion of one canonical tag (Quick Pick's fallback only). *)
termsOf(tag) ==
    LET lower == toLowerCase(tag)
    IN  <<lower>>
        \o (IF includes(lower, "quick") THEN <<"fast", "weeknight", "30 min">> ELSE <<>>)
        \o (IF includes(lower, "healthy") THEN <<"nutritious", "light", "fresh">> ELSE <<>>)
        \o (IF includes(lower, "hearty") THEN <<"filling", "substantial", "satisfying">> ELSE <<>>)
        \o (IF includes(lower, "comfort") THEN <<"cozy", "indulgent", "rich">> ELSE <<>>)
        \o (IF includes(lower, "main dish") THEN <<"entree", "main course", "dinner">> ELSE <<>>)

RECURSIVE flatMapTerms(_)
flatMapTerms(tags) ==
    IF tags = <<>> THEN <<>> ELSE termsOf(Head(tags)) \o flatMapTerms(Tail(tags))

expandedTerms(tagFilters) == flatMapTerms(tagFilters)

likePatterns(tagFilters) ==
    LET e == expandedTerms(tagFilters)
    IN  [i \in 1..Len(e) |-> "%" \o e[i] \o "%"]

(* ---------------------------------------------------------------------- *)
(* Bounds, program constants and the values inputs are drawn from          *)
(* ---------------------------------------------------------------------- *)

MaxRecipes == 2

NumRequests == 2

NumTaggingRequests == 3

\* LIMIT of the Smart Match candidates query
ShortlistLimit == 15

\* estimated cost of one Smart Match call, 0.015 dollars, in thousandths
SmartMatchCost == 15

RecipeIds == 1..MaxRecipes

Requests == 1..NumRequests

\* the confirmed /run-tagging requests the server may receive
TaggingRequests == 1..NumTaggingRequests

\* curated tag arrays a recipe row may hold when the model starts
TagLists ==
    { <<>>,
      <<"Dessert">>,
      <<"Main Dish", "Quick (< 30 min)", "Easy">> }

\* ai_tags arrays a recipe row may hold when the model starts
AiTagLists == { <<>>, <<"weeknight friendly">> }

\* the filters query parameter of a /recommend request
FilterParams == { "", "any-time", "quick", "main-dish,quick", "dessert,quick,zzz" }

\* the values a single request is checked with: also filters that half of a
\* recipe's tags match, and filters two recipes match in different numbers
SingleFilterParams == FilterParams \cup { "dessert,quick", "dessert,main-dish,quick" }

\* tagFilters of each parameter value, and the ILIKE patterns the fallback query
\* builds from them, tabulated once
\* (every identifier of these values maps to a string)
TagFilters == [f \in SingleFilterParams |-> StringsOf(tagFiltersOf(f))]

Patterns == [f \in SingleFilterParams |-> likePatterns(TagFilters[f])]

SmartMatchParams == { "true", "false" }

\* aiTags arrays the external service may return
AiTagReplies == { <<>>, <<"one pot", "weeknight friendly">> }

\* arrays the external service may return to the bulk AI tagging job
BulkTagReplies == { <<>>, <<"make ahead">> }

VARIABLES
    meals,        \* table meals, rows with meal_type = 'recipe': id -> row
    ai_usage,     \* table ai_usage: the sequence of inserted rows
    clock,        \* the database clock: the start time of the latest transaction
    req,          \* the /recommend requests: position and locals of each handler
    bulk,         \* the /generate-all-ai-tags job: position and locals
    tagging,      \* the /run-tagging job: position and locals
    taggingInProgress,  \* the server's flag of the same name
    migration,    \* /run-migration: the flag migrationRun, the tables, recipes.json
                  \* and the position and transaction of each request
    meals0        \* history: the meals table when the model starts

vars == <<meals, ai_usage, clock, req, bulk, tagging, taggingInProgress, migration, meals0>>

jobs == <<bulk, tagging, taggingInProgress>>

IdleJob == [pc |-> "idle", recipes |-> <<>>, i |-> 0, reply |-> <<>>, now |-> 0,
            successCount |-> 0, errorCount |-> 0,
            \* history: the external calls of the job that were answered with an array
            answered |-> 0]

Undefined == [id |-> 0, tags |-> <<>>, ai_tags |-> <<>>]

NoResponse == [kind |-> "pending", recipe |-> 0, reasoning |-> FALSE]

IdleRequest ==
    [ pc |-> "idle", filters |-> "", smartMatch |-> "false", tagFilters |-> <<>>,
      candidates |-> <<>>, aiResult |-> [topChoice |-> 0, aiTags |-> <<>>],
      chosenRecipe |-> Undefined, now |-> 0, result |-> <<>>, response |-> NoResponse,
      expandedTerms |-> <<>>,
      \* history: what happened to the request
      aiOutcome |-> "none", extCalls |-> 0, tagWrite |-> "none", track |-> "none" ]

(* ---------------------------------------------------------------------- *)
(* The tables /run-migration works on                                      *)
(* ---------------------------------------------------------------------- *)

NoTable == [exists |-> FALSE, rows |-> <<>>]

Table(rows) == [exists |-> TRUE, rows |-> rows]

\* a database without any of the tables
NoTables ==
    [orders |-> NoTable, order_items |-> NoTable, meals |-> NoTable, meal_items |-> NoTable,
     orders_backup |-> NoTable, order_items_backup |-> NoTable]

MaxOrders == 2

\* the database before the migration: no tables at all, or orders 1..k with one
\* item each
OldDatabases ==
    {NoTables} \cup
    {[NoTables EXCEPT !.orders = Table([o \in 1..k |-> o]),
                      !.order_items = Table([o \in 1..k |-> o])] : k \in 0..MaxOrders}

\* recipes.json beside the server: missing, or a list of recipes (their tags)
RecipeFiles ==
    { [exists |-> FALSE, recipes |-> <<>>],
      [exists |-> TRUE, recipes |-> << <<"Dessert">> >>] }

IdleMigration ==
    [pc |-> "idle", tx |-> NoTables, aborted |-> FALSE, i |-> 0,
     \* history: the statement at which the request failed
     failedAt |-> "none"]

NumMigrationRequests == 3

MigrationRequests == 1..NumMigrationRequests

\* the server after the migration, with no migration request under way
Migrated ==
    [migrationRun |-> FALSE,
     db |-> [NoTables EXCEPT !.meals = Table(<<>>), !.meal_items = Table(<<>>)],
     db0 |-> [NoTables EXCEPT !.meals = Table(<<>>), !.meal_items = Table(<<>>)],
     writer |-> 0,
     recipesJson |-> [exists |-> FALSE, recipes |-> <<>>],
     reqs |-> [r \in MigrationRequests |-> IdleMigration]]

Stores ==
    UNION { [1..n -> [tags : TagLists, ai_tags : AiTagLists, last_updated : {0}]]
            : n \in 0..MaxRecipes }

Init ==
    /\ meals \in Stores
    /\ meals0 = meals
    /\ ai_usage = <<>>
    /\ clock = 0
    /\ req = [p \in Requests |-> IdleRequest]
    /\ bulk = IdleJob
    /\ tagging = [r \in TaggingRequests |-> IdleJob]
    /\ taggingInProgress = FALSE
    /\ migration = Migrated

(* ---------------------------------------------------------------------- *)
(* Queries against meals                                                   *)
(* ---------------------------------------------------------------------- *)

Min(a, b) == IF a <= b THEN a ELSE b

\* SQL a && b on text arrays: the arrays have an element in common
Overlaps(a, b) == \E i \in 1..Len(a), j \in 1..Len(b) : a[i] = b[j]

\* (SELECT COUNT(*) FROM unnest(tags) tag WHERE tag = ANY(filters))
match_count(tags, tagFilters) ==
    Cardinality({i \in 1..Len(tags) : \E j \in 1..Len(tagFilters) : tags[i] = tagFilters[j]})

\* every string an ai_tags array of the model can hold, and every pattern a
\* request of the model can search for
AiTagStrings == UNION {{l[i] : i \in 1..Len(l)} : l \in AiTagLists \cup AiTagReplies \cup BulkTagReplies}

SearchPatterns == UNION {{likePatterns(TagFilters[f])[i] : i \in 1..Len(likePatterns(TagFilters[f]))}
                          : f \in SingleFilterParams}

\* tag ILIKE pattern, tabulated once over the strings of the model
ILikeTable == [s \in AiTagStrings |-> [pat \in SearchPatterns |-> ILike(s, pat)]]

\* (SELECT COUNT(*) FROM unnest(ai_tags) tag WHERE tag ILIKE ANY(patterns))
ai_match_count(ai_tags, patterns) ==
    Cardinality({i \in 1..Len(ai_tags) : \E j \in 1..Len(patterns) : ILikeTable[ai_tags[i]][patterns[j]]})

\* SELECT * of one row
Row(id) == [id |-> id, tags |-> meals[id].tags, ai_tags |-> meals[id].ai_tags]

\* (variant: the query has no condition on tags)
CandidateIdsUnfiltered(tagFilters) == DOMAIN meals

\* WHERE meal_type = 'recipe' AND tags && $1
CandidateIds(tagFilters) == {id \in DOMAIN meals : Overlaps(meals[id].tags, tagFilters)}

\* ORDER BY RANDOM() LIMIT n over a set of rows: every arrangement of every subset
\* of size min(n, |S|)
RandomLimit(S, n) ==
    LET k == Min(n, Cardinality(S))
    IN  {s \in [1..k -> S] : \A i, j \in 1..k : i # j => s[i] # s[j]}

\* ORDER BY RANDOM() LIMIT n as far as the set of returned rows goes: every subset
\* of size min(n, |S|)
RandomSubsets(S, n) == {T \in SUBSET S : Cardinality(T) = Min(n, Cardinality(S))}

\* the ids of T as a sequence
RECURSIVE InIdOrder(_)
InIdOrder(T) ==
    IF T = {} THEN <<>>
    ELSE LET m == CHOOSE x \in T : \A y \in T : x <= y
         IN  <<m>> \o InIdOrder(T \ {m})

\* mutant of CandidatesQuery: the query has no LIMIT
CandidatesQueryUnlimited(tagFilters) ==
    {[i \in 1..Len(s) |-> Row(s[i])] : s \in {InIdOrder(CandidateIds(tagFilters))}}

\* the Smart Match candidates query, ORDER BY RANDOM() LIMIT 15: any
\* min(15, matching) of the matching recipes. The position the service picks is
\* arbitrary, so of the arrangements of a drawn set the model keeps one
CandidatesQuery(tagFilters) ==
    {[i \in 1..Len(s) |-> Row(s[i])] :
        s \in {InIdOrder(T) : T \in RandomSubsets(CandidateIds(tagFilters), ShortlistLimit)}}

\* mutant of AnyRecipeQuery: ORDER BY id LIMIT 1
AnyRecipeQueryFirst == IF DOMAIN meals = {} THEN {<<>>} ELSE {<<Row(1)>>}

\* SELECT * ... ORDER BY RANDOM() LIMIT 1
AnyRecipeQuery == {[i \in 1..Len(s) |-> Row(s[i])] : s \in RandomLimit(DOMAIN meals, 1)}

\* one row of a Quick Pick query as the database computes it: SELECT * and the
\* two counts (ai_count is 0 in the primary query, which does not select it)
SqlRow(id, tagFilters, patterns) ==
    [id |-> id, tags |-> meals[id].tags, ai_tags |-> meals[id].ai_tags,
     mc |-> match_count(meals[id].tags, tagFilters),
     amc |-> ai_match_count(meals[id].ai_tags, patterns)]

\* the row as pool.query hands it to the handler: the counts are bigint, so strings
PgRow(r) ==
    [id |-> r.id, tags |-> r.tags, ai_tags |-> r.ai_tags,
     match_count |-> PgCount(r.mc), ai_match_count |-> PgCount(r.amc)]

\* mutant of ByMatchCount: ORDER BY match_count ASC
ByMatchCountAsc(a, b) == a.mc < b.mc

\* ORDER BY match_count DESC
ByMatchCount(a, b) == a.mc > b.mc

\* ORDER BY match_count DESC, ai_match_count DESC
ByMatchThenAiCount(a, b) == a.mc > b.mc \/ (a.mc = b.mc /\ a.amc > b.amc)

\* LIMIT 1 of the rows no other row precedes in the ORDER BY (the fallback query
\* orders by ai_match_count as well); RANDOM() breaks ties
FirstRows(rows, byAiCount) ==
    IF rows = {} THEN {<<>>}
    ELSE {<<PgRow(r)>> : r \in {r \in rows : \A o \in rows :
              ~(IF byAiCount THEN ByMatchThenAiCount(o, r) ELSE ByMatchCount(o, r))}}

\* Quick Pick's primary query: WHERE tags && $1 ORDER BY match_count DESC, RANDOM() LIMIT 1
QuickPickQuery(tagFilters) ==
    LET rows == {SqlRow(id, tagFilters, <<>>) : id \in CandidateIds(tagFilters)}
    IN  FirstRows(rows, FALSE)

\* WHERE clause of the fallback query: tags && $1 OR ai_tags && $2
AiQueryWhere(id, tagFilters, patterns) ==
    Overlaps(meals[id].tags, tagFilters) \/ Overlaps(meals[id].ai_tags, patterns)

\* Quick Pick's fallback query: ... ORDER BY ..., RANDOM() LIMIT 1
AiQuery(tagFilters, patterns) ==
    LET W == {id \in DOMAIN meals : AiQueryWhere(id, tagFilters, patterns)}
        rows == {SqlRow(id, tagFilters, patterns) : id \in W}
    IN  FirstRows(rows, TRUE)

\* mutant of array_cat: phrases already present are not appended again
array_cat_distinct(ai_tags, aiTags) ==
    ai_tags \o SelectSeq(aiTags, LAMBDA t : \A i \in 1..Len(ai_tags) : ai_tags[i] # t)

\* mutant of array_cat: SET ai_tags = $1
array_replace(ai_tags, aiTags) == aiTags

\* array_cat(COALESCE(ai_tags, ARRAY[]::text[]), $1::text[])
array_cat(ai_tags, aiTags) == ai_tags \o aiTags

(* ---------------------------------------------------------------------- *)
(* GET /recommend, type=cooking                                            *)
(* ---------------------------------------------------------------------- *)

\* mutant of SmartMatchRequested: the smartMatch parameter is not looked at
SmartMatchIgnoringFlag(smartMatch, tagFilters) == Len(tagFilters) > 0

\* if (smartMatch === 'true' && tagFilters.length > 0)
SmartMatchRequested(smartMatch, tagFilters) == smartMatch = "true" /\ Len(tagFilters) > 0

\* mutant of QuickPickEntry: the Quick Pick part records usage like Smart Match
QuickPickEntryTracked(tagFilters) == "track"

\* where the handler goes when it reaches the Quick Pick part
QuickPickEntry(tagFilters) == IF Len(tagFilters) > 0 THEN "quickPick" ELSE "random"

\* mutant of IsWeakMatch: the fallback query runs after every primary query
IsWeakMatchAlways(rows, tagFilters) == TRUE

\* result.rows.length === 0 || result.rows[0].match_count < tagFilters.length * 0.5
IsWeakMatch(rows, tagFilters) ==
    rows = <<>> \/ 2 * ToNumber(rows[1].match_count) < Len(tagFilters)

\* the match quality indicator; 0.66 is compared in hundredths
matchQuality(matchCount, tagFilters) ==
    IF StrictEquals(matchCount, JsNumber(Len(tagFilters))) THEN "perfect"
    ELSE IF 100 * ToNumber(matchCount) >= 66 * Len(tagFilters) THEN "great"
    ELSE "close"

\* (variant: an index outside the shortlist is clamped to its last row)
ChosenRecipeClamped(candidates, topChoice) ==
    IF topChoice \in 1..Len(candidates) THEN candidates[topChoice]
    ELSE candidates[Len(candidates)]

\* candidates.rows[aiResult.topChoice - 1]
ChosenRecipe(candidates, topChoice) ==
    IF topChoice \in 1..Len(candidates) THEN candidates[topChoice] ELSE Undefined

Response(kind, row) == [kind |-> kind, recipe |-> row.id, reasoning |-> kind = "smart"]

NoRecipesFound == [kind |-> "norecipes", recipe |-> 0, reasoning |-> FALSE]

\* mutant of AnyRecipeResponse: rows[0] is used unchecked, the TypeError reaches
\* the handler's catch block, which answers with status 500
AnyRecipeResponseUnchecked(rows, kind) ==
    IF Len(rows) = 0 THEN [kind |-> "error500", recipe |-> 0, reasoning |-> FALSE]
    ELSE Response(kind, rows[1])

\* the response to the ORDER BY RANDOM() LIMIT 1 query: No Recipes Found when it
\* returns no row
AnyRecipeResponse(rows, kind) ==
    IF Len(rows) = 0 THEN NoRecipesFound ELSE Response(kind, rows[1])

CuratedResponse(row, tagFilters) == Response(matchQuality(row.match_count, tagFilters), row)

\* the request arrives: filters are parsed and normalized, the mode is chosen
Recommend(p, filters, smartMatch) ==
    /\ req[p].pc = "idle"
    /\ LET tagFilters == TagFilters[filters]
       IN  req' = [req EXCEPT ![p] =
                [@ EXCEPT !.filters = filters, !.smartMatch = smartMatch,
                          !.tagFilters = tagFilters,
                          !.pc = IF SmartMatchRequested(smartMatch, tagFilters)
                                 THEN "candidates" ELSE QuickPickEntry(tagFilters)]]
    /\ UNCHANGED <<meals, ai_usage, clock, migration, meals0, jobs>>

\* Smart Match: the candidates query returns
SmartMatchCandidates(p) ==
    /\ req[p].pc = "candidates"
    /\ \E rows \in CandidatesQuery(req[p].tagFilters) :
          req' = [req EXCEPT ![p] =
                [@ EXCEPT !.candidates = rows,
                          !.pc = IF Len(rows) = 0 THEN "anyRecipe" ELSE "fetch"]]
    /\ UNCHANGED <<meals, ai_usage, clock, migration, meals0, jobs>>

\* Smart Match with no candidates: any recipe, or No Recipes Found
SmartMatchAnyRecipe(p) ==
    /\ req[p].pc = "anyRecipe"
    /\ \E rows \in AnyRecipeQuery :
          req' = [req EXCEPT ![p] =
                [@ EXCEPT !.pc = "done",
                          !.response = AnyRecipeResponse(rows, "plain")]]
    /\ UNCHANGED <<meals, ai_usage, clock, migration, meals0, jobs>>

\* outcomes of the external call that end the Smart Match attempt: fetch rejects,
\* the status is not ok, the text is not parseable as JSON
FailedOutcomes == {"transport_error", "not_ok", "unparsable"}

\* mutant of AfterAiResult: the UPDATE is not awaited, the handler goes on to the
\* usage tracking and the response while the statement is pending
AfterAiResultNoAwait(aiResult, chosenRecipe, tagFilters) ==
    IF chosenRecipe = Undefined THEN QuickPickEntry(tagFilters) ELSE "track"

\* mutant of AfterAiResult: an undefined chosenRecipe is not noticed
AfterAiResultUnchecked(aiResult, chosenRecipe, tagFilters) ==
    IF Len(aiResult.aiTags) > 0 /\ chosenRecipe # Undefined THEN "saveTags" ELSE "track"

\* position after the external call answered ok with a parsed aiResult: the tag
\* write when there are tags and a chosen recipe, the usage tracking when there are
\* no tags; with an undefined chosenRecipe buildRecipeHTML throws and the catch
\* block falls through to Quick Pick
AfterAiResult(aiResult, chosenRecipe, tagFilters) ==
    IF chosenRecipe = Undefined THEN QuickPickEntry(tagFilters)
    ELSE IF Len(aiResult.aiTags) > 0 THEN "saveTags"
    ELSE "track"

\* mutant of AfterFailedFetch: the rejection is not caught by the Smart Match
\* attempt; the request ends in the handler's catch block with status 500
AfterFailedFetchUncaught(tagFilters) == "failed"

\* mutant of AfterFailedFetch: usage is tracked whether or not the call succeeded
AfterFailedFetchTracked(tagFilters) == "track"

\* mutant of AfterFailedFetch: a failed call is answered like an empty shortlist
AfterFailedFetchAnyRecipe(tagFilters) == "anyRecipe"

\* position after a failed external call: the if is skipped or the catch block
\* logs, and the handler runs on into Quick Pick
AfterFailedFetch(tagFilters) == QuickPickEntry(tagFilters)

\* Smart Match: the external reasoning call fails
SmartMatchFetchFails(p, outcome) ==
    /\ req[p].pc = "fetch"
    /\ req' = [req EXCEPT ![p] =
            [@ EXCEPT !.aiOutcome = outcome, !.extCalls = @ + 1,
                      !.pc = AfterFailedFetch(req[p].tagFilters)]]
    /\ UNCHANGED <<meals, ai_usage, clock, migration, meals0, jobs>>

\* Smart Match: the external reasoning call answers ok with a parseable object.
\* When there are tags to save the handler issues the UPDATE: the statement's
\* transaction starts, which fixes the now() it will stamp
SmartMatchFetchOk(p, topChoice, aiTags) ==
    /\ req[p].pc = "fetch"
    /\ LET aiResult == [topChoice |-> topChoice, aiTags |-> aiTags]
           chosenRecipe == ChosenRecipe(req[p].candidates, topChoice)
           next == AfterAiResult(aiResult, chosenRecipe, req[p].tagFilters)
       IN  /\ req' = [req EXCEPT ![p] =
                [@ EXCEPT !.aiOutcome = "ok", !.extCalls = @ + 1,
                          !.aiResult = aiResult, !.chosenRecipe = chosenRecipe,
                          !.now = IF next = "saveTags" THEN clock + 1 ELSE @,
                          !.pc = next]]
           /\ clock' = IF next = "saveTags" THEN clock + 1 ELSE clock
    /\ UNCHANGED <<meals, ai_usage, migration, meals0, jobs>>

\* mutant of SaveAiTags: read-modify-write, the new array is built from the copy of
\* the row the handler fetched earlier
SaveAiTagsFromCopy(table, recipe, aiTags, now) ==
    [table EXCEPT ![recipe.id] =
        [@ EXCEPT !.ai_tags = recipe.ai_tags \o aiTags, !.last_updated = now]]

\* UPDATE meals SET ai_tags = array_cat(ai_tags, $1), ai_tag_metadata = ... now()
\* WHERE id = $2, with $2 the id of the handler's copy of the recipe: one statement,
\* which the database runs on the row's current value; now() is the start time of
\* the statement's transaction
SaveAiTags(table, recipe, aiTags, now) ==
    [table EXCEPT ![recipe.id] =
        [@ EXCEPT !.ai_tags = array_cat(@, aiTags), !.last_updated = now]]

\* mutant of AfterSaveTags: the error of a failed UPDATE is not caught where it is
\* thrown and reaches the catch block of the Smart Match attempt
AfterSaveTagsUncaught(ok, tagFilters) == IF ok THEN "track" ELSE QuickPickEntry(tagFilters)

\* position after the ai_tags UPDATE: its error is caught and logged, so the
\* handler goes on to the usage tracking either way
AfterSaveTags(ok, tagFilters) == "track"

\* Smart Match: the ai_tags UPDATE takes the row, writes and commits, or fails and
\* is logged
SmartMatchSaveTags(p, ok) ==
    /\ req[p].pc = "saveTags"
    /\ IF ok
       THEN meals' = SaveAiTags(meals, req[p].chosenRecipe, req[p].aiResult.aiTags, req[p].now)
       ELSE UNCHANGED meals
    /\ req' = [req EXCEPT ![p] =
            [@ EXCEPT !.tagWrite = IF ok THEN "ok" ELSE "failed",
                      !.pc = AfterSaveTags(ok, req[p].tagFilters)]]
    /\ UNCHANGED <<ai_usage, clock, migration, meals0, jobs>>

\* trackAIUsage: the INSERT runs, or fails and is logged
trackAIUsage(feature, estimatedCost, by, ok) ==
    ai_usage' = IF ok
                THEN Append(ai_usage, [feature |-> feature, estimated_cost |-> estimatedCost, by |-> by])
                ELSE ai_usage

\* Smart Match: usage is tracked and the response is sent
SmartMatchTrack(p, ok) ==
    /\ req[p].pc = "track"
    /\ trackAIUsage("smart_match", SmartMatchCost, p, ok)
    /\ req' = [req EXCEPT ![p] =
            [@ EXCEPT !.track = IF ok THEN "ok" ELSE "failed", !.pc = "done",
                      !.response = Response("smart", req[p].chosenRecipe)]]
    /\ UNCHANGED <<meals, clock, migration, meals0, jobs>>

\* Quick Pick: the primary query returns
QuickPick(p) ==
    /\ req[p].pc = "quickPick"
    /\ \E rows \in QuickPickQuery(req[p].tagFilters) :
          req' = [req EXCEPT ![p] =
                IF IsWeakMatch(rows, req[p].tagFilters)
                THEN [@ EXCEPT !.result = rows, !.pc = "aiQuery"]
                ELSE [@ EXCEPT !.result = rows, !.pc = "done",
                               !.response = CuratedResponse(rows[1], req[p].tagFilters)]]
    /\ UNCHANGED <<meals, ai_usage, clock, migration, meals0, jobs>>

\* Quick Pick: the ai_tags fallback query returns
QuickPickAiFallback(p) ==
    /\ req[p].pc = "aiQuery"
    /\ \E rows \in AiQuery(req[p].tagFilters, Patterns[req[p].filters]) :
          req' = [req EXCEPT ![p] =
                IF Len(rows) > 0 /\ ToNumber(rows[1].ai_match_count) > 0
                THEN [@ EXCEPT !.pc = "done", !.response = Response("inferred", rows[1])]
                ELSE IF Len(req[p].result) > 0
                THEN [@ EXCEPT !.pc = "done",
                               !.response = CuratedResponse(req[p].result[1], req[p].tagFilters)]
                ELSE [@ EXCEPT !.pc = "random"]]
    /\ UNCHANGED <<meals, ai_usage, clock, migration, meals0, jobs>>

\* no filters or no matches: a random recipe, or No Recipes Found
RandomRecipe(p) ==
    /\ req[p].pc = "random"
    /\ \E rows \in AnyRecipeQuery :
          req' = [req EXCEPT ![p] =
                [@ EXCEPT !.pc = "done",
                          !.response = AnyRecipeResponse(rows, "none")]]
    /\ UNCHANGED <<meals, ai_usage, clock, migration, meals0, jobs>>

(* ---------------------------------------------------------------------- *)
(* GET /generate-all-ai-tags?confirm=yes: ai_tags for every recipe          *)
(* ---------------------------------------------------------------------- *)

\* estimated cost of one bulk tagging call, 0.015 dollars, in thousandths
BulkTaggingCost == 15

\* SELECT ... FROM meals WHERE meal_type = 'recipe' ORDER BY name ASC; recipe id
\* order stands for name order
AllRecipes == [i \in 1..Cardinality(DOMAIN meals) |-> Row(i)]

\* the loop moves to the next recipe, or the job ends
NextRecipe(job) ==
    IF job.i < Len(job.recipes) THEN [job EXCEPT !.i = @ + 1, !.pc = "ai"]
    ELSE [job EXCEPT !.pc = "done"]

\* the confirmed request arrives and the recipes are fetched
BulkStart ==
    /\ bulk.pc = "idle"
    /\ bulk' = IF Len(AllRecipes) = 0 THEN [bulk EXCEPT !.pc = "done"]
               ELSE [bulk EXCEPT !.recipes = AllRecipes, !.i = 1, !.pc = "ai"]
    /\ UNCHANGED <<meals, ai_usage, clock, req, tagging, taggingInProgress, migration, meals0>>

\* the external call for recipe i fails, or its text is no non-empty array
BulkAiFails ==
    /\ bulk.pc = "ai"
    /\ bulk' = NextRecipe([bulk EXCEPT !.errorCount = @ + 1])
    /\ UNCHANGED <<meals, ai_usage, clock, req, tagging, taggingInProgress, migration, meals0>>

\* the external call for recipe i returns a non-empty array of tags and the job
\* issues the UPDATE: the statement's transaction starts, which fixes its now()
BulkAiOk(aiTags) ==
    /\ bulk.pc = "ai"
    /\ Len(aiTags) > 0
    /\ bulk' = [bulk EXCEPT !.reply = aiTags, !.now = clock + 1, !.pc = "update",
                             !.answered = @ + 1]
    /\ clock' = clock + 1
    /\ UNCHANGED <<meals, ai_usage, req, tagging, taggingInProgress, migration, meals0>>

\* the ai_tags UPDATE of recipe i runs, or throws into the per-recipe catch
BulkSaveTags(ok) ==
    /\ bulk.pc = "update"
    /\ IF ok
       THEN /\ meals' = SaveAiTags(meals, bulk.recipes[bulk.i], bulk.reply, bulk.now)
            /\ bulk' = [bulk EXCEPT !.pc = "track"]
       ELSE /\ UNCHANGED meals
            /\ bulk' = NextRecipe([bulk EXCEPT !.errorCount = @ + 1])
    /\ UNCHANGED <<ai_usage, clock, req, tagging, taggingInProgress, migration, meals0>>

\* the cost of the call is tracked
BulkTrack(ok) ==
    /\ bulk.pc = "track"
    /\ trackAIUsage("bulk_ai_tagging", BulkTaggingCost, 0, ok)
    /\ bulk' = NextRecipe([bulk EXCEPT !.successCount = @ + 1])
    /\ UNCHANGED <<meals, clock, req, tagging, taggingInProgress, migration, meals0>>

(* ---------------------------------------------------------------------- *)
(* GET /run-tagging?confirm=yes: curated tags for every recipe             *)
(* ---------------------------------------------------------------------- *)

\* tag arrays the external service may return to the tagging job
TagReplies == { <<"Dessert">>, <<"Main Dish", "Quick (< 30 min)", "Easy">> }

\* (variant: the request starts a job whether or not one is running)
TaggingStartUnguarded(r) ==
    /\ tagging[r].pc = "idle"
    /\ tagging' = [tagging EXCEPT ![r].pc = "select"]
    /\ taggingInProgress' = TRUE
    /\ UNCHANGED <<meals, ai_usage, clock, req, bulk, migration, meals0>>

\* the confirmed request arrives while no job runs: the flag is set and the
\* SELECT is issued, all before the handler first awaits
TaggingStart(r) ==
    /\ tagging[r].pc = "idle"
    /\ ~taggingInProgress
    /\ tagging' = [tagging EXCEPT ![r].pc = "select"]
    /\ taggingInProgress' = TRUE
    /\ UNCHANGED <<meals, ai_usage, clock, req, bulk, migration, meals0>>

\* the request arrives while the flag is set: the 'Tagging In Progress' page
TaggingInProgress(r) ==
    /\ tagging[r].pc = "idle"
    /\ taggingInProgress
    /\ tagging' = [tagging EXCEPT ![r].pc = "rejected"]
    /\ UNCHANGED <<meals, ai_usage, clock, req, bulk, taggingInProgress, migration, meals0>>

\* the recipes are fetched (with none the loop is skipped), or the SELECT
\* throws: the outer catch writes the fatal error and finally clears the flag
TaggingSelect(r, ok) ==
    /\ tagging[r].pc = "select"
    /\ IF ok
       THEN /\ tagging' = [tagging EXCEPT ![r] =
                              IF Len(AllRecipes) = 0 THEN [@ EXCEPT !.pc = "stats"]
                              ELSE [@ EXCEPT !.recipes = AllRecipes, !.i = 1, !.pc = "ai"]]
            /\ UNCHANGED taggingInProgress
       ELSE /\ tagging' = [tagging EXCEPT ![r].pc = "fatal"]
            /\ taggingInProgress' = FALSE
    /\ UNCHANGED <<meals, ai_usage, clock, req, bulk, migration, meals0>>

\* the loop moves to the next recipe, or on to the tag statistics
TaggingNext(r, job) ==
    tagging' = [tagging EXCEPT ![r] =
                   IF job.i < Len(job.recipes) THEN NextRecipe(job)
                   ELSE [job EXCEPT !.pc = "stats"]]

\* (variant: the first failed call ends the job)
TaggingAiFailsAborts(r) ==
    /\ tagging[r].pc = "ai"
    /\ tagging' = [tagging EXCEPT ![r].errorCount = @ + 1, ![r].pc = "fatal"]
    /\ taggingInProgress' = FALSE
    /\ UNCHANGED <<meals, ai_usage, clock, req, bulk, migration, meals0>>

\* the external call for recipe i fails, or its text holds no array
TaggingAiFails(r) ==
    /\ tagging[r].pc = "ai"
    /\ TaggingNext(r, [tagging[r] EXCEPT !.errorCount = @ + 1])
    /\ UNCHANGED <<meals, ai_usage, clock, req, bulk, taggingInProgress, migration, meals0>>

\* the external call for recipe i returns an array of tags
TaggingAiOk(r, tags) ==
    /\ tagging[r].pc = "ai"
    /\ tagging' = [tagging EXCEPT ![r].reply = tags, ![r].pc = "update",
                                   ![r].answered = @ + 1]
    /\ UNCHANGED <<meals, ai_usage, clock, req, bulk, taggingInProgress, migration, meals0>>

\* UPDATE meals SET tags = $1 of recipe i runs, or throws into the per-recipe catch
TaggingSaveTags(r, ok) ==
    /\ tagging[r].pc = "update"
    /\ IF ok
       THEN /\ meals' = [meals EXCEPT ![tagging[r].recipes[tagging[r].i].id].tags =
                                          tagging[r].reply]
            /\ TaggingNext(r, [tagging[r] EXCEPT !.successCount = @ + 1])
       ELSE /\ UNCHANGED meals
            /\ TaggingNext(r, [tagging[r] EXCEPT !.errorCount = @ + 1])
    /\ UNCHANGED <<ai_usage, clock, req, bulk, taggingInProgress, migration, meals0>>

\* the tag statistics are queried and the page is completed, or the query
\* throws into the outer catch; either way finally clears the flag
TaggingStats(r, ok) ==
    /\ tagging[r].pc = "stats"
    /\ tagging' = [tagging EXCEPT ![r].pc = IF ok THEN "done" ELSE "fatal"]
    /\ taggingInProgress' = FALSE
    /\ UNCHANGED <<meals, ai_usage, clock, req, bulk, migration, meals0>>

Next ==
    \/ \E p \in Requests, f \in FilterParams, s \in SmartMatchParams : Recommend(p, f, s)
    \/ \E p \in Requests : SmartMatchCandidates(p)
    \/ \E p \in Requests : SmartMatchAnyRecipe(p)
    \/ \E p \in Requests, o \in FailedOutcomes : SmartMatchFetchFails(p, o)
    \/ \E p \in Requests, a \in AiTagReplies :
          \E t \in 1..(Len(req[p].candidates) + 1) : SmartMatchFetchOk(p, t, a)
    \/ \E p \in Requests, ok \in BOOLEAN : SmartMatchSaveTags(p, ok)
    \/ \E p \in Requests, ok \in BOOLEAN : SmartMatchTrack(p, ok)
    \/ \E p \in Requests : QuickPick(p)
    \/ \E p \in Requests : QuickPickAiFallback(p)
    \/ \E p \in Requests : RandomRecipe(p)

Spec == Init /\ [][Next]_vars

\* the requests the jobs run beside, and what they ask for
JobRequests == {1}

JobFilterParams == { "quick" }

\* the one /run-tagging request that runs beside them
JobTaggingRequests == {1}

\* the jobs start on a full store that holds no ai_tags yet
InitJobs ==
    /\ Init
    /\ DOMAIN meals = RecipeIds
    /\ \A id \in RecipeIds : meals[id].ai_tags = <<>>

NextJobs ==
    \/ \E p \in JobRequests, f \in JobFilterParams, s \in SmartMatchParams : Recommend(p, f, s)
    \/ \E p \in JobRequests : SmartMatchCandidates(p)
    \/ \E p \in JobRequests : SmartMatchAnyRecipe(p)
    \/ \E p \in JobRequests, o \in FailedOutcomes : SmartMatchFetchFails(p, o)
    \/ \E p \in JobRequests, a \in AiTagReplies :
          \E t \in 1..(Len(req[p].candidates) + 1) : SmartMatchFetchOk(p, t, a)
    \/ \E p \in JobRequests, ok \in BOOLEAN : SmartMatchSaveTags(p, ok)
    \/ \E p \in JobRequests, ok \in BOOLEAN : SmartMatchTrack(p, ok)
    \/ \E p \in JobRequests : QuickPick(p)
    \/ \E p \in JobRequests : QuickPickAiFallback(p)
    \/ \E p \in JobRequests : RandomRecipe(p)
    \/ BulkStart
    \/ BulkAiFails
    \/ \E a \in BulkTagReplies : BulkAiOk(a)
    \/ \E ok \in BOOLEAN : BulkSaveTags(ok)
    \/ \E ok \in BOOLEAN : BulkTrack(ok)
    \/ \E r \in JobTaggingRequests : TaggingStart(r)
    \/ \E r \in JobTaggingRequests, ok \in BOOLEAN : TaggingSelect(r, ok)
    \/ \E r \in JobTaggingRequests : TaggingAiFails(r)
    \/ \E r \in JobTaggingRequests, t \in TagReplies : TaggingAiOk(r, t)
    \/ \E r \in JobTaggingRequests, ok \in BOOLEAN : TaggingSaveTags(r, ok)
    \/ \E r \in JobTaggingRequests, ok \in BOOLEAN : TaggingStats(r, ok)

SpecJobs == InitJobs /\ [][NextJobs]_vars

\* one request alone, over every store and the wider set of filters
NextSingle ==
    \/ \E p \in JobRequests, f \in SingleFilterParams, s \in SmartMatchParams : Recommend(p, f, s)
    \/ \E p \in JobRequests : SmartMatchCandidates(p)
    \/ \E p \in JobRequests : SmartMatchAnyRecipe(p)
    \/ \E p \in JobRequests, o \in FailedOutcomes : SmartMatchFetchFails(p, o)
    \/ \E p \in JobRequests, a \in AiTagReplies :
          \E t \in 1..(Len(req[p].candidates) + 1) : SmartMatchFetchOk(p, t, a)
    \/ \E p \in JobRequests, ok \in BOOLEAN : SmartMatchSaveTags(p, ok)
    \/ \E p \in JobRequests, ok \in BOOLEAN : SmartMatchTrack(p, ok)
    \/ \E p \in JobRequests : QuickPick(p)
    \/ \E p \in JobRequests : QuickPickAiFallback(p)
    \/ \E p \in JobRequests : RandomRecipe(p)

SpecSingle == Init /\ [][NextSingle]_vars

\* the external service never answers: the handler sets no timeout of its own, the
\* pending fetch ends when the runtime gives up waiting and rejects it
NoAnswer == "timeout"

\* a step of the handler of request p
HandlerStep(p) ==
    \/ SmartMatchCandidates(p)
    \/ SmartMatchAnyRecipe(p)
    \/ \E o \in FailedOutcomes \cup {NoAnswer} : SmartMatchFetchFails(p, o)
    \/ \E a \in AiTagReplies :
          \E t \in 1..(Len(req[p].candidates) + 1) : SmartMatchFetchOk(p, t, a)
    \/ \E ok \in BOOLEAN : SmartMatchSaveTags(p, ok)
    \/ \E ok \in BOOLEAN : SmartMatchTrack(p, ok)
    \/ QuickPick(p)
    \/ QuickPickAiFallback(p)
    \/ RandomRecipe(p)

NextLive ==
    \/ \E p \in JobRequests, f \in SingleFilterParams, s \in SmartMatchParams : Recommend(p, f, s)
    \/ \E p \in JobRequests : HandlerStep(p)

\* every awaited promise of a handler settles (the store answers its queries, the
\* external call is answered, fails or is given up) and the event loop then
\* runs the handler's continuation
SpecLive == Init /\ [][NextLive]_vars /\ \A p \in JobRequests : WF_vars(HandlerStep(p))

\* a store large enough for the LIMIT of the candidates query to cut
LargeStore == 17

\* the first n recipes are quick main dishes, the others desserts
LargeStores ==
    { [id \in 1..LargeStore |->
          [tags |-> IF id <= n THEN <<"Main Dish", "Quick (< 30 min)", "Easy">> ELSE <<"Dessert">>,
           ai_tags |-> <<>>, last_updated |-> 0]] : n \in (ShortlistLimit - 1)..LargeStore }

InitLarge ==
    /\ meals \in LargeStores
    /\ meals0 = meals
    /\ ai_usage = <<>>
    /\ clock = 0
    /\ req = [p \in Requests |-> IdleRequest]
    /\ bulk = IdleJob
    /\ tagging = [r \in TaggingRequests |-> IdleJob]
    /\ taggingInProgress = FALSE
    /\ migration = Migrated

\* one Smart Match request for quick recipes over a large store
NextLarge ==
    \/ \E p \in JobRequests, f \in JobFilterParams : Recommend(p, f, "true")
    \/ \E p \in JobRequests : SmartMatchCandidates(p)
    \/ \E p \in JobRequests, o \in FailedOutcomes : SmartMatchFetchFails(p, o)
    \/ \E p \in JobRequests, a \in AiTagReplies :
          \E t \in 1..(Len(req[p].candidates) + 1) : SmartMatchFetchOk(p, t, a)
    \/ \E p \in JobRequests, ok \in BOOLEAN : SmartMatchSaveTags(p, ok)
    \/ \E p \in JobRequests, ok \in BOOLEAN : SmartMatchTrack(p, ok)
    \/ \E p \in JobRequests : QuickPick(p)

SpecLarge == InitLarge /\ [][NextLarge]_vars

(* ---------------------------------------------------------------------- *)
(* Properties                                                              *)
(* ---------------------------------------------------------------------- *)

Done(p) == req[p].pc = "done"

\* the ai_usage rows request p inserted
UsageBy(p) == SelectSeq(ai_usage, LAMBDA r : r.by = p)

\* the responses the Quick Pick part of the handler sends
QuickPickKinds == {"perfect", "great", "close", "inferred", "none", "norecipes"}

CuratedKinds == {"perfect", "great", "close"}

IsPrefix(a, b) == Len(a) <= Len(b) /\ SubSeq(b, 1, Len(a)) = a

\* the requests whose ai_tags UPDATE of recipe id ran
Writers(id) == {p \in Requests : req[p].tagWrite = "ok" /\ req[p].chosenRecipe.id = id}

\* the returned phrases of the requests in S, concatenated in every order
RECURSIVE Concats(_)
Concats(S) ==
    IF S = {} THEN {<<>>}
    ELSE UNION {{req[p].aiResult.aiTags \o c : c \in Concats(S \ {p})} : p \in S}

\* the phrases of b stand in a, together and in order
Contains(a, b) == \E k \in 0..(Len(a) - Len(b)) : SubSeq(a, k + 1, k + Len(b)) = b

\* the recipes whose curated tags hold the most filter tags, and at least one
BestMatches(tagFilters) ==
    {id \in CandidateIds(tagFilters) :
        \A o \in DOMAIN meals :
            match_count(meals[o].tags, tagFilters) <= match_count(meals[id].tags, tagFilters)}

\* the recipe has an ai_tag that matches an expanded term of the request's filters
InferredHit(id, p) == ai_match_count(meals[id].ai_tags, Patterns[req[p].filters]) > 0

\* the best curated match count is at least half the number of filters
StrongMatch(tagFilters) ==
    \E id \in BestMatches(tagFilters) :
        2 * match_count(meals[id].tags, tagFilters) >= Len(tagFilters)

\* the ids of the rows of a query result
Ids(rows) == {rows[i].id : i \in 1..Len(rows)}

\* tags holds every filter tag
HasAllTags(tags, tagFilters) ==
    \A j \in 1..Len(tagFilters) : \E i \in 1..Len(tags) : tags[i] = tagFilters[j]

\* C1: when Smart Match requests run concurrently and append to the same recipe,
\* no append is lost under any interleaving: the recipe's ai_tags is its value
\* before the requests followed by the returned phrases of every request whose
\* UPDATE ran, whole and in the order the UPDATEs ran (so 2k longer after two
\* appends of k phrases).
C1_NoAppendLost ==
    \A id \in DOMAIN meals :
        meals[id].ai_tags \in {meals0[id].ai_tags \o c : c \in Concats(Writers(id))}

\* C1 witness: two requests chose the same recipe, both fetched it before either
\* wrote, each appended two phrases, and the array is four entries longer.
C1_Witness ==
    \E p, q \in Requests :
        /\ p # q /\ Done(p) /\ Done(q)
        /\ req[p].tagWrite = "ok" /\ req[q].tagWrite = "ok"
        /\ req[p].chosenRecipe.id = req[q].chosenRecipe.id
        /\ req[p].chosenRecipe.ai_tags = meals0[req[p].chosenRecipe.id].ai_tags
        /\ req[q].chosenRecipe.ai_tags = meals0[req[q].chosenRecipe.id].ai_tags
        /\ Len(req[p].aiResult.aiTags) = 2 /\ Len(req[q].aiResult.aiTags) = 2
        /\ Len(meals[req[p].chosenRecipe.id].ai_tags)
              = Len(meals0[req[p].chosenRecipe.id].ai_tags) + 4

\* C2 (as claimed): every Smart Match request whose external call answered ok
\* with a parseable object, whatever topChoice and aiTags are, has created
\* exactly one usage record, smart_match at 0.015, unless the insert failed.
C2_OneUsagePerSuccessfulCall ==
    \A p \in Requests :
        (Done(p) /\ req[p].aiOutcome = "ok" /\ req[p].track # "failed") =>
            /\ Len(UsageBy(p)) = 1
            /\ UsageBy(p)[1].feature = "smart_match"
            /\ UsageBy(p)[1].estimated_cost = SmartMatchCost

\* C3: a Smart Match request has created no usage record when its external call
\* failed (transport error, error status, unparsable text) and when its shortlist
\* was empty and it short-circuited to a random recipe.
C3_NoUsageOnFailureOrShortCircuit ==
    \A p \in Requests :
        (\/ req[p].aiOutcome \in FailedOutcomes
         \/ /\ SmartMatchRequested(req[p].smartMatch, req[p].tagFilters)
            /\ req[p].pc \in {"anyRecipe", "done"}
            /\ req[p].candidates = <<>>)
        => UsageBy(p) = <<>>

\* C3 witness: one request ended after a failed external call and another after
\* the empty-shortlist short circuit.
C3_Witness ==
    \E p, q \in Requests :
        /\ Done(p) /\ req[p].aiOutcome \in FailedOutcomes /\ req[p].extCalls = 1
        /\ Done(q) /\ req[q].smartMatch = "true" /\ req[q].candidates = <<>>
        /\ req[q].response.kind = "plain"

\* C4: after a failed external call the same request is answered by Quick Pick
\* for the same filters: the response is a Quick Pick response without rationale
\* (a curated match is a recipe with curated overlap, an inferred match a recipe
\* with an ai_tags hit, the random recipe only comes when nothing overlaps), the
\* request wrote no ai_tags, metadata or usage record, and it called the
\* external service once.
C4_FailedCallFallsBackToQuickPick ==
    \A p \in Requests :
        req[p].aiOutcome \in FailedOutcomes =>
            /\ req[p].extCalls = 1
            /\ req[p].tagWrite = "none" /\ req[p].track = "none"
            /\ req[p].pc \in {"quickPick", "aiQuery", "random", "done"}
            /\ Done(p) =>
                  /\ req[p].response.kind \in QuickPickKinds
                  /\ ~req[p].response.reasoning
                  /\ req[p].response.kind \in CuratedKinds =>
                        req[p].response.recipe \in CandidateIds(req[p].tagFilters)
                  /\ req[p].response.kind = "inferred" =>
                        ai_match_count(meals[req[p].response.recipe].ai_tags,
                                       Patterns[req[p].filters]) > 0
                  /\ req[p].response.kind = "none" => CandidateIds(req[p].tagFilters) = {}

\* C4 witness: a request whose external call returned unparsable text was
\* answered with a curated Quick Pick match.
C4_Witness ==
    \E p \in Requests :
        /\ Done(p) /\ req[p].aiOutcome = "unparsable"
        /\ req[p].response.kind \in CuratedKinds

\* C5 (as claimed): a request served by Quick Pick with non-empty filters, when
\* some recipe's curated tags hold every filter tag, returns a recipe with
\* match_count = |filters| classified perfect.
C5_FullOverlapIsPerfect ==
    \A p \in Requests :
        (/\ Done(p) /\ req[p].response.kind \in QuickPickKinds
         /\ Len(req[p].tagFilters) > 0
         /\ \E id \in DOMAIN meals : HasAllTags(meals[id].tags, req[p].tagFilters))
        => /\ req[p].response.kind = "perfect"
           /\ match_count(meals[req[p].response.recipe].tags, req[p].tagFilters)
                 = Len(req[p].tagFilters)

\* C6 (as claimed): with non-empty filters, no curated overlap in the store and
\* some recipe with an ai_tag matching an expanded term, Quick Pick returns a
\* recipe with an inferred-tag hit, annotated as matched via inference.
C6_InferredHitIsReturned ==
    \A p \in Requests :
        (/\ Done(p) /\ req[p].response.kind \in QuickPickKinds
         /\ Len(req[p].tagFilters) > 0
         /\ meals = meals0
         /\ CandidateIds(req[p].tagFilters) = {}
         /\ \E id \in DOMAIN meals :
               ai_match_count(meals[id].ai_tags, Patterns[req[p].filters]) > 0)
        => /\ req[p].response.kind = "inferred"
           /\ ai_match_count(meals[req[p].response.recipe].ai_tags,
                             Patterns[req[p].filters]) > 0

C9_AiTagsAppendOnly ==
    [][\A id \in DOMAIN meals : IsPrefix(meals[id].ai_tags, meals'[id].ai_tags)]_vars

\* C9 witness: a Smart Match request and the bulk job have both appended to a
\* recipe whose curated tags the tagging job has replaced.
C9_Witness ==
    \E id \in DOMAIN meals, p \in Requests :
        /\ req[p].tagWrite = "ok" /\ req[p].chosenRecipe.id = id
        /\ bulk.successCount > 0 /\ bulk.recipes[1].id = id
        /\ tagging[1].successCount > 0 /\ meals[id].tags # meals0[id].tags
        /\ Len(meals[id].ai_tags) >= 3

\* C10: the ai_tags write of a successful Smart Match appends exactly the
\* returned phrases, in order and without deduplication, to the chosen recipe, so
\* the array grows by the number of returned phrases even when they are already
\* present; no other recipe's ai_tags and no curated tags change, and no other
\* step of a request changes the store.
C10_ExactAppend ==
    [][IF \E p \in Requests : req[p].pc = "saveTags" /\ req'[p].tagWrite = "ok"
       THEN \A p \in Requests :
               (req[p].pc = "saveTags" /\ req'[p].tagWrite = "ok") =>
                  /\ meals'[req[p].chosenRecipe.id].ai_tags
                        = meals[req[p].chosenRecipe.id].ai_tags \o req[p].aiResult.aiTags
                  /\ \A o \in DOMAIN meals :
                        /\ meals'[o].tags = meals[o].tags
                        /\ o # req[p].chosenRecipe.id => meals'[o].ai_tags = meals[o].ai_tags
       ELSE \A o \in DOMAIN meals :
               meals'[o].tags = meals[o].tags /\ meals'[o].ai_tags = meals[o].ai_tags]_vars

\* C10 witness: two Smart Match calls returned the same phrases for the same
\* recipe, and its ai_tags holds them twice.
C10_Witness ==
    \E p, q \in Requests :
        /\ p # q /\ Done(p) /\ Done(q)
        /\ req[p].response.kind = "smart" /\ req[q].response.kind = "smart"
        /\ req[p].chosenRecipe.id = req[q].chosenRecipe.id
        /\ req[p].aiResult.aiTags = req[q].aiResult.aiTags
        /\ Len(req[p].aiResult.aiTags) > 0
        /\ meals[req[p].chosenRecipe.id].ai_tags
              = meals0[req[p].chosenRecipe.id].ai_tags
                   \o req[p].aiResult.aiTags \o req[q].aiResult.aiTags

\* C11: a request calls the external service at most once, and only when
\* smartMatch is 'true', the normalized filter list is non-empty and some recipe
\* has curated overlap with it; every other request is answered by Quick Pick or
\* by a random recipe, without rationale, external call or usage record.
C11_ExternalCallGated ==
    \A p \in Requests :
        LET gate == /\ req[p].smartMatch = "true"
                    /\ Len(req[p].tagFilters) > 0
                    /\ CandidateIds(req[p].tagFilters) # {}
        IN  /\ req[p].extCalls <= 1
            /\ req[p].extCalls = 1 => gate
            /\ (Done(p) /\ ~gate) =>
                  /\ req[p].extCalls = 0 /\ UsageBy(p) = <<>>
                  /\ req[p].response.kind \in QuickPickKinds \cup {"plain"}
                  /\ ~req[p].response.reasoning

\* C11 witness: one request made its single external call, another asked for
\* Smart Match with wildcard-only filters over a non-empty store and was answered
\* with a random recipe without a call.
C11_Witness ==
    \E p, q \in Requests :
        /\ Done(p) /\ req[p].extCalls = 1 /\ req[p].response.kind = "smart"
        /\ Done(q) /\ req[q].smartMatch = "true" /\ req[q].filters = "any-time"
        /\ req[q].extCalls = 0 /\ req[q].response.kind = "none"

\* C12: when the ai_tags append fails, the usage-record insert fails, or both, a
\* Smart Match request whose external call succeeded and chose a recipe of the
\* shortlist still returns that recipe with its rationale; after a failed append
\* the usage tracking is still attempted and, when its insert runs, writes the
\* record.
C12_WriteFailuresDoNotBlock ==
    \A p \in Requests :
        /\ req[p].tagWrite = "failed" => req[p].pc \in {"track", "done"}
        /\ (Done(p) /\ req[p].aiOutcome = "ok" /\ req[p].chosenRecipe # Undefined) =>
              /\ req[p].response.kind = "smart"
              /\ req[p].response.recipe = req[p].chosenRecipe.id
              /\ req[p].response.reasoning
              /\ req[p].track \in {"ok", "failed"}
              /\ req[p].track = "ok" =>
                    /\ Len(UsageBy(p)) = 1
                    /\ UsageBy(p)[1].feature = "smart_match"

\* C12 witness: the append of one request failed and its usage record was
\* written; both writes of another request failed; both returned the chosen
\* recipe with the rationale.
C12_Witness ==
    \E p, q \in Requests :
        /\ Done(p) /\ req[p].tagWrite = "failed" /\ req[p].track = "ok"
        /\ Len(UsageBy(p)) = 1 /\ req[p].response.kind = "smart"
        /\ Done(q) /\ req[q].tagWrite = "failed" /\ req[q].track = "failed"
        /\ UsageBy(q) = <<>> /\ req[q].response.kind = "smart"
        /\ req[q].response.recipe = req[q].chosenRecipe.id

\* C13: once the response of a successful Smart Match is sent, the ai_tags
\* append and the usage-record write have both completed or failed; when the
\* append ran, the chosen recipe's ai_tags holds the appended phrases in every
\* state from the response on, so a read that starts after the response sees them.
C13_WritesBeforeResponse ==
    \A p \in Requests :
        req[p].response.kind = "smart" =>
            /\ req[p].track \in {"ok", "failed"}
            /\ Len(req[p].aiResult.aiTags) > 0 => req[p].tagWrite \in {"ok", "failed"}
            /\ req[p].tagWrite = "ok" =>
                  Contains(meals[req[p].chosenRecipe.id].ai_tags, req[p].aiResult.aiTags)

\* C13 witness: a Smart Match response was sent after its append and its usage
\* record were written, and then another request appended to the same recipe.
C13_Witness ==
    \E p, q \in Requests :
        /\ p # q /\ req[p].response.kind = "smart"
        /\ req[p].tagWrite = "ok" /\ req[p].track = "ok" /\ Len(UsageBy(p)) = 1
        /\ req[q].tagWrite = "ok" /\ req[q].chosenRecipe.id = req[p].chosenRecipe.id
        /\ req[q].now > req[p].now
        /\ Contains(meals[req[p].chosenRecipe.id].ai_tags, req[p].aiResult.aiTags)

C15_LastUpdatedMonotone ==
    [][\A id \in DOMAIN meals : meals'[id].last_updated >= meals[id].last_updated]_vars

\* C16: a curated-match Quick Pick result (perfect, great or close) is a recipe
\* whose match count is the maximum over the store, and the primary query can
\* return every recipe that attains the maximum (ties are broken at random).
C16_MaxMatchCount ==
    \A p \in Requests :
        /\ (Done(p) /\ req[p].response.kind \in CuratedKinds) =>
              req[p].response.recipe \in BestMatches(req[p].tagFilters)
        /\ req[p].pc = "quickPick" =>
              {rows[1].id : rows \in QuickPickQuery(req[p].tagFilters) \ {<<>>}}
                 = BestMatches(req[p].tagFilters)

\* C16 witness: the store holds two recipes with the same positive match count,
\* and the second was returned as a curated match.
C16_Witness ==
    \E p \in Requests :
        /\ Done(p) /\ req[p].response.kind \in CuratedKinds
        /\ req[p].response.recipe = 2
        /\ BestMatches(req[p].tagFilters) = {1, 2}
        /\ Len(req[p].tagFilters) > 1

\* C17 (as claimed): a curated-match result with match count c and n filters is
\* classified perfect iff c = n, great iff c # n and c >= 0.66 n, and close
\* otherwise.
C17_QualityThresholds ==
    \A p \in Requests :
        (Done(p) /\ req[p].response.kind \in CuratedKinds) =>
            LET c == match_count(meals[req[p].response.recipe].tags, req[p].tagFilters)
                n == Len(req[p].tagFilters)
            IN  req[p].response.kind =
                    IF c = n THEN "perfect"
                    ELSE IF 100 * c >= 66 * n THEN "great"
                    ELSE "close"

\* C18: Quick Pick answers with a result matched via inference only when the
\* match is weak (no curated overlap, or the best match count is below half the
\* number of filters) and only with a recipe that has an ai_tag matching an
\* expanded term; when the best match count is at least half the number of
\* filters the curated result is returned, also when recipes have inferred hits.
C18_InferredOnlyWhenWeak ==
    \A p \in Requests :
        Done(p) =>
            /\ req[p].response.kind = "inferred" =>
                  /\ ~StrongMatch(req[p].tagFilters)
                  /\ InferredHit(req[p].response.recipe, p)
            /\ (req[p].response.kind \in QuickPickKinds /\ StrongMatch(req[p].tagFilters)) =>
                  /\ req[p].response.kind \in CuratedKinds
                  /\ req[p].response.recipe \in BestMatches(req[p].tagFilters)

\* C18 witness: the returned curated match holds exactly half of the filter tags
\* and has no inferred hit, while the other recipe of the store has one.
C18_Witness ==
    \E p \in Requests :
        /\ Done(p) /\ req[p].response.kind \in CuratedKinds
        /\ 2 * match_count(meals[req[p].response.recipe].tags, req[p].tagFilters)
              = Len(req[p].tagFilters)
        /\ ~InferredHit(req[p].response.recipe, p)
        /\ \E o \in DOMAIN meals : InferredHit(o, p)

\* C19 (as claimed): whenever the weak-match fallback runs and some recipe of
\* the store has an ai_tag matching an expanded filter term, the response is a
\* recipe with an inferred-tag hit, annotated as matched via inference, whatever
\* the curated match counts of the other recipes are.
C19_FallbackReturnsInferredHit ==
    \A p \in Requests :
        (/\ Done(p) /\ req[p].response.kind \in QuickPickKinds
         /\ Len(req[p].tagFilters) > 0
         /\ IsWeakMatch(req[p].result, req[p].tagFilters)
         /\ \E id \in DOMAIN meals : InferredHit(id, p))
        => /\ req[p].response.kind = "inferred"
           /\ InferredHit(req[p].response.recipe, p)

C21_ShortlistAtMost15 ==
    \A p \in JobRequests :
        LET matching == CandidateIds(req[p].tagFilters)
            size == IF Cardinality(matching) < 15 THEN Cardinality(matching) ELSE 15
        IN  /\ req[p].pc = "candidates" =>
                  {Ids(rows) : rows \in CandidatesQuery(req[p].tagFilters)}
                     = {T \in SUBSET matching : Cardinality(T) = size}
            /\ req[p].pc \notin {"idle", "candidates"} =>
                  /\ Len(req[p].candidates) <= 15
                  /\ Len(req[p].candidates) = size
                  /\ Cardinality(Ids(req[p].candidates)) = Len(req[p].candidates)
                  /\ \A i \in 1..Len(req[p].candidates) :
                        Overlaps(req[p].candidates[i].tags, req[p].tagFilters)
            /\ req[p].response.kind = "smart" =>
                  req[p].response.recipe \in Ids(req[p].candidates)

\* C21 witness: 17 recipes match, the shortlist of 15 leaves out recipes 1 and 2
\* and holds recipe 17, which was returned with the rationale.
C21_Witness ==
    \E p \in JobRequests :
        /\ Cardinality(CandidateIds(req[p].tagFilters)) = 17
        /\ Len(req[p].candidates) = 15
        /\ Ids(req[p].candidates) = 3..17
        /\ req[p].response.kind = "smart" /\ req[p].response.recipe = 17

\* C22: a request served by Quick Pick (smartMatch not 'true', or no non-wildcard
\* filters) never calls the external service, and no step of it, the ai_tags
\* fallback and the random fallback included, changes a recipe's tags, ai_tags
\* or ai_tag_metadata or the usage ledger.
C22_QuickPickFrame ==
    /\ [](\A p \in Requests :
             (req[p].smartMatch # "true" \/ Len(req[p].tagFilters) = 0) =>
                 /\ req[p].extCalls = 0 /\ req[p].tagWrite = "none" /\ req[p].track = "none"
                 /\ UsageBy(p) = <<>>)
    /\ [][\A p \in Requests :
             (/\ req'[p] # req[p]
              /\ req'[p].smartMatch # "true" \/ Len(req'[p].tagFilters) = 0)
             => (meals' = meals /\ ai_usage' = ai_usage)]_vars

\* C22 witness: a Quick Pick request was answered through the ai_tags fallback
\* and a request with smartMatch 'true' and wildcard-only filters through the
\* random fallback, and the store and the ledger are as they were.
C22_Witness ==
    \E p, q \in Requests :
        /\ Done(p) /\ req[p].smartMatch = "false" /\ req[p].response.kind = "inferred"
        /\ Done(q) /\ req[q].smartMatch = "true" /\ req[q].filters = "any-time"
        /\ req[q].response.kind = "none"
        /\ meals = meals0 /\ ai_usage = <<>>

(* ---------------------------------------------------------------------- *)
(* The tag normalizer and the synonym expansion as functions: one request  *)
(* over an empty store, its filters parameter drawn from the lists of at   *)
(* most MaxIdentifiers identifiers, normalised and then expanded as the    *)
(* Quick Pick fallback does over an empty result.                          *)
(* ---------------------------------------------------------------------- *)

MaxIdentifiers == 2

Identifiers == {"any-time", "quick", "healthy", "filling", "complex", "zzz", "constructor"}

RECURSIVE join(_, _)
join(ids, sep) ==
    IF Len(ids) = 0 THEN ""
    ELSE IF Len(ids) = 1 THEN ids[1]
    ELSE ids[1] \o sep \o join(Tail(ids), sep)

NormalizerInputs ==
    {join(ids, ",") : ids \in UNION {[1..n -> Identifiers] : n \in 0..MaxIdentifiers}}

InitNormalizer ==
    /\ meals = <<>>
    /\ meals0 = meals
    /\ ai_usage = <<>>
    /\ clock = 0
    /\ \E filters \in NormalizerInputs :
           req = [p \in Requests |-> IF p \in JobRequests
                                      THEN [IdleRequest EXCEPT !.filters = filters]
                                      ELSE IdleRequest]
    /\ bulk = IdleJob
    /\ tagging = [r \in TaggingRequests |-> IdleJob]
    /\ taggingInProgress = FALSE
    /\ migration = Migrated

Normalize(p) ==
    /\ req[p].pc = "idle"
    /\ req' = [req EXCEPT ![p].tagFilters = tagFiltersOf(req[p].filters),
                           ![p].pc = "normalized"]
    /\ UNCHANGED <<meals, ai_usage, clock, bulk, tagging, taggingInProgress, migration, meals0>>

\* tagFilters.flatMap(tag => ...) over strings
Expand(p) ==
    /\ req[p].pc = "normalized"
    /\ AllStrings(req[p].tagFilters)
    /\ req' = [req EXCEPT ![p].expandedTerms = expandedTerms(StringsOf(req[p].tagFilters)),
                           ![p].pc = "expanded"]
    /\ UNCHANGED <<meals, ai_usage, clock, bulk, tagging, taggingInProgress, migration, meals0>>

\* tag.toLowerCase is not a function: the TypeError reaches the handler's catch,
\* which answers with status 500
ExpandThrows(p) ==
    /\ req[p].pc = "normalized"
    /\ ~AllStrings(req[p].tagFilters)
    /\ req' = [req EXCEPT ![p].response = [NoResponse EXCEPT !.kind = "error"],
                           ![p].pc = "done"]
    /\ UNCHANGED <<meals, ai_usage, clock, bulk, tagging, taggingInProgress, migration, meals0>>

NextNormalizer ==
    \E p \in JobRequests :
        \/ Normalize(p)
        \/ Expand(p)
        \/ ExpandThrows(p)

SpecNormalizer == InitNormalizer /\ [][NextNormalizer]_vars

\* C23 (as claimed, for the answered calls of /run-tagging): every call to the
\* external service results in exactly one usage record, so when only the
\* tagging job has run, ai_usage holds one record per call it made.
C23_EveryCallTracked ==
    (/\ tagging[1].pc = "done" /\ bulk.pc = "idle"
     /\ \A p \in Requests : req[p].pc = "idle")
    => Len(ai_usage) = tagging[1].answered

\* the list the normalizer is described to produce: wildcards dropped, table
\* identifiers replaced by their canonical tag, every other identifier kept
Described(filters) ==
    LET kept == SelectSeq(filterArray(filters), LAMBDA f : ~startsWith(f, "any-"))
    IN  [i \in 1..Len(kept) |->
            JsString(IF kept[i] \in DOMAIN filterToTagMap
                     THEN filterToTagMap[kept[i]] ELSE kept[i])]

\* C24 (as claimed): the normalizer drops the identifiers that start with
\* 'any-', replaces the table's identifiers by their canonical tags, passes
\* every other identifier through unchanged, and no error is reported.
C24_NormalizerPassesThrough ==
    \A p \in JobRequests :
        req[p].pc # "idle" =>
            /\ req[p].tagFilters = Described(req[p].filters)
            /\ req[p].response.kind # "error"

\* C25 (as claimed): the expansion of the Quick filter is exactly quick, fast,
\* weeknight, 30 min, and that of the Healthy filter exactly healthy,
\* nutritious, light, fresh.
C25_QuickAndHealthyTerms ==
    \A p \in JobRequests :
        req[p].pc = "expanded" =>
            /\ req[p].filters = "quick" =>
                   req[p].expandedTerms = <<"quick", "fast", "weeknight", "30 min">>
            /\ req[p].filters = "healthy" =>
                   req[p].expandedTerms = <<"healthy", "nutritious", "light", "fresh">>

\* C26: a recipe's curated tags change only in the step of the tagging job
\* that writes the array it received for that recipe, and become exactly that
\* array; a step in which the call for a recipe fails or returns no array
\* leaves every recipe's tags unchanged, counts the failure and moves the job
\* on to the next recipe (or ends it after the last one).
C26_TagsReplacedOnlyByTaggingJob ==
    /\ [][\A id \in DOMAIN meals :
             meals'[id].tags # meals[id].tags =>
                 \E r \in TaggingRequests :
                     /\ tagging[r].pc = "update"
                     /\ tagging[r].recipes[tagging[r].i].id = id
                     /\ meals'[id].tags = tagging[r].reply]_vars
    /\ [][\A r \in TaggingRequests :
             (tagging[r].pc = "ai" /\ tagging'[r] # tagging[r] /\ tagging'[r].pc # "update") =>
                 /\ \A id \in DOMAIN meals : meals'[id].tags = meals[id].tags
                 /\ tagging'[r].errorCount = tagging[r].errorCount + 1
                 /\ tagging'[r].successCount = tagging[r].successCount
                 /\ IF tagging[r].i < Len(tagging[r].recipes)
                    THEN tagging'[r].pc = "ai" /\ tagging'[r].i = tagging[r].i + 1
                    ELSE tagging'[r].pc = "stats"]_vars

\* C26 witness: the job has ended after the call for the first recipe failed
\* and the array received for the second recipe replaced its tags.
C26_Witness ==
    /\ tagging[1].pc = "done" /\ Len(tagging[1].recipes) = 2
    /\ tagging[1].answered = 1 /\ tagging[1].errorCount = 1 /\ tagging[1].successCount = 1
    /\ meals[1].tags = meals0[1].tags
    /\ meals[2].tags # meals0[2].tags /\ meals[2].tags = tagging[1].reply

(* ---------------------------------------------------------------------- *)
(* Confirmed /run-tagging requests alone                                   *)
(* ---------------------------------------------------------------------- *)

\* the largest store the requests are checked over
TaggingStore == 1

InitTagging ==
    /\ Init
    /\ Cardinality(DOMAIN meals) <= TaggingStore

NextTagging ==
    \/ \E r \in TaggingRequests : TaggingStart(r)
    \/ \E r \in TaggingRequests : TaggingInProgress(r)
    \/ \E r \in TaggingRequests, ok \in BOOLEAN : TaggingSelect(r, ok)
    \/ \E r \in TaggingRequests : TaggingAiFails(r)
    \/ \E r \in TaggingRequests, t \in TagReplies : TaggingAiOk(r, t)
    \/ \E r \in TaggingRequests, ok \in BOOLEAN : TaggingSaveTags(r, ok)
    \/ \E r \in TaggingRequests, ok \in BOOLEAN : TaggingStats(r, ok)

SpecTagging == InitTagging /\ [][NextTagging]_vars

\* the requests whose job is running
RunningJobs == {r \in TaggingRequests : tagging[r].pc \in {"select", "ai", "update", "stats"}}

\* C27: at most one /run-tagging job runs at any time; the flag is set exactly
\* while a job runs, so it is cleared when the job ends, normally or through a
\* fatal error; a confirmed request that arrives while a job runs gets the
\* 'Tagging In Progress' page and changes nothing, and one that arrives while
\* none runs starts a job.
C27_OneTaggingJob ==
    /\ [](Cardinality(RunningJobs) <= 1)
    /\ [](taggingInProgress <=> RunningJobs # {})
    /\ [][\A r \in TaggingRequests :
             (tagging[r].pc = "idle" /\ tagging'[r].pc # "idle") =>
                 IF RunningJobs # {}
                 THEN /\ tagging'[r].pc = "rejected"
                      /\ UNCHANGED <<meals, ai_usage, taggingInProgress>>
                      /\ \A q \in TaggingRequests \ {r} : tagging'[q] = tagging[q]
                 ELSE tagging'[r].pc = "select" /\ taggingInProgress']_vars

\* C27 witness: one request was turned away while a job ran, that job ended
\* through a fatal error after replacing a recipe's tags, and a later request
\* has started a new job.
C27_Witness ==
    \E a, b, c \in TaggingRequests :
        /\ tagging[a].pc = "fatal" /\ tagging[a].successCount > 0
        /\ tagging[b].pc = "rejected"
        /\ tagging[c].pc = "ai"
        /\ taggingInProgress

\* the external service answered request p with a topChoice outside its shortlist
OutOfRange(p) ==
    /\ req[p].aiOutcome = "ok"
    /\ req[p].aiResult.topChoice \notin 1..Len(req[p].candidates)

\* C28: a Smart Match request answered with a topChoice outside 1..N attempts
\* no ai_tags write and none of its steps changes any recipe; it goes on to
\* Quick Pick with the filters it came with, and its response is one of Quick
\* Pick's, without a Smart Match rationale.
C28_OutOfRangeFallsToQuickPick ==
    /\ [](\A p \in Requests :
             OutOfRange(p) =>
                 /\ req[p].tagWrite = "none"
                 /\ req[p].pc \in {"quickPick", "aiQuery", "random", "done"}
                 /\ Done(p) => /\ req[p].response.kind \in QuickPickKinds
                                /\ ~req[p].response.reasoning)
    /\ [][\A p \in Requests :
             (req'[p] # req[p] /\ OutOfRange(p)') =>
                 /\ meals' = meals
                 /\ req'[p].tagFilters = req[p].tagFilters
                 /\ req[p].pc = "fetch" => req'[p].pc = "quickPick"]_vars

\* C28 witness: the answer named a recipe outside the shortlist and carried
\* phrases to save; the request was answered by Quick Pick with a recipe that
\* matches its filters, and no recipe has changed.
C28_Witness ==
    \E p \in Requests :
        /\ Done(p) /\ OutOfRange(p) /\ Len(req[p].aiResult.aiTags) > 0
        /\ req[p].aiResult.topChoice = Len(req[p].candidates) + 1
        /\ req[p].response.kind \in CuratedKinds
        /\ meals = meals0

TxStatements ==
    {"begin", "createMeals", "createMealItems", "createIndexes", "oldTablesCheck",
     "copyOrders", "copyItems", "renameOrders", "renameItems", "readRecipes", "stats"}

TakeoutRow(o) == [meal_type |-> "takeout", order |-> o, tags |-> <<>>]

RecipeRow(tags) == [meal_type |-> "recipe", order |-> 0, tags |-> tags]

\* the rows with meal_type = 'recipe' of a meals table, as /recommend sees them
RecipesOf(table) ==
    LET rs == SelectSeq(table.rows, LAMBDA row : row.meal_type = "recipe")
    IN  [i \in 1..Len(rs) |-> [tags |-> rs[i].tags, ai_tags |-> <<>>, last_updated |-> 0]]

\* whether the statement can succeed on the working copy; CREATE TABLE meals
\* waits while another transaction has created the table and not yet ended
CanSucceed(r, stmt, tx) ==
    CASE stmt = "createMeals" -> migration.writer = 0 /\ ~migration.db.meals.exists
      [] stmt = "createMealItems" -> ~tx.meal_items.exists
      [] stmt = "copyOrders" -> tx.orders.exists
      [] stmt = "copyItems" -> tx.order_items.exists
      [] stmt = "renameOrders" -> tx.orders.exists /\ ~tx.orders_backup.exists
      [] stmt = "renameItems" -> tx.order_items.exists /\ ~tx.order_items_backup.exists
      [] OTHER -> TRUE

\* the working copy after the statement
Apply(stmt, tx) ==
    CASE stmt = "begin" -> migration.db
      [] stmt = "createMeals" -> [migration.db EXCEPT !.meals = Table(<<>>)]
      [] stmt = "createMealItems" -> [tx EXCEPT !.meal_items = Table(<<>>)]
      [] stmt = "copyOrders" ->
            [tx EXCEPT !.meals.rows =
                @ \o [i \in 1..Len(tx.orders.rows) |-> TakeoutRow(tx.orders.rows[i])]]
      [] stmt = "copyItems" -> [tx EXCEPT !.meal_items.rows = @ \o tx.order_items.rows]
      [] stmt = "renameOrders" -> [tx EXCEPT !.orders_backup = tx.orders, !.orders = NoTable]
      [] stmt = "renameItems" ->
            [tx EXCEPT !.order_items_backup = tx.order_items, !.order_items = NoTable]
      [] OTHER -> tx

\* the statement the handler awaits next
Following(stmt, tx) ==
    CASE stmt = "begin" -> "createMeals"
      [] stmt = "createMeals" -> "createMealItems"
      [] stmt = "createMealItems" -> "createIndexes"
      [] stmt = "createIndexes" -> "oldTablesCheck"
      [] stmt = "oldTablesCheck" -> IF tx.orders.exists THEN "copyOrders" ELSE "readRecipes"
      [] stmt = "copyOrders" -> "copyItems"
      [] stmt = "copyItems" -> "renameOrders"
      [] stmt = "renameOrders" -> "renameItems"
      [] stmt = "renameItems" -> "readRecipes"
      [] stmt = "readRecipes" ->
            IF migration.recipesJson.exists /\ Len(migration.recipesJson.recipes) > 0
            THEN "importRecipe" ELSE "stats"
      [] stmt = "stats" -> "commit"

\* (variant: the schema changes of a transaction survive its ROLLBACK)
RolledBackNothing(db, tx) == tx

\* the tables after ROLLBACK
RolledBack(db, tx) == db

\* the confirmed request arrives: the flag is tested and a connection taken
MigrationArrive(r) ==
    /\ migration.reqs[r].pc = "idle"
    /\ migration' = [migration EXCEPT !.reqs[r].pc =
                         IF migration.migrationRun THEN "already" ELSE "check"]
    /\ UNCHANGED meals
    /\ UNCHANGED <<ai_usage, clock, req, bulk, tagging, taggingInProgress, meals0>>

\* the test for the meals table: when it exists the flag is set and the
\* 'Already Complete' page is sent; when the query throws, the catch block runs
MigrationTableCheck(r, ok) ==
    /\ migration.reqs[r].pc = "check"
    /\ migration' =
          IF ~ok THEN [migration EXCEPT !.reqs[r].pc = "rollback", !.reqs[r].failedAt = "check"]
          ELSE IF migration.db.meals.exists
          THEN [migration EXCEPT !.migrationRun = TRUE, !.reqs[r].pc = "already"]
          ELSE [migration EXCEPT !.reqs[r].pc = "begin"]
    /\ UNCHANGED meals
    /\ UNCHANGED <<ai_usage, clock, req, bulk, tagging, taggingInProgress, meals0>>

\* one awaited statement of the transaction (or the reading of recipes.json)
\* succeeds, or throws into the catch block; in a transaction that a failed
\* statement has aborted every further statement fails
MigrationStatement(r, ok) ==
    LET m == migration.reqs[r]
    IN  /\ m.pc \in TxStatements
        /\ ok => (~m.aborted /\ CanSucceed(r, m.pc, m.tx))
        /\ (~ok /\ m.pc = "readRecipes") => migration.recipesJson.exists
        /\ migration' =
              IF ok
              THEN [migration EXCEPT !.reqs[r].tx = Apply(m.pc, m.tx),
                                     !.reqs[r].pc = Following(m.pc, m.tx),
                                     !.reqs[r].i = 1,
                                     !.writer = IF m.pc = "createMeals" THEN r ELSE @]
              ELSE [migration EXCEPT !.reqs[r].pc = "rollback", !.reqs[r].failedAt = m.pc]
        /\ UNCHANGED meals
        /\ UNCHANGED <<ai_usage, clock, req, bulk, tagging, taggingInProgress, meals0>>

\* Step 7: the INSERT of recipe i; its error is caught and the recipe skipped,
\* which leaves the transaction aborted
MigrationImportRecipe(r, ok) ==
    LET m == migration.reqs[r]
        recipes == migration.recipesJson.recipes
        next == IF m.i < Len(recipes) THEN "importRecipe" ELSE "stats"
    IN  /\ m.pc = "importRecipe"
        /\ ok => ~m.aborted
        /\ migration' =
              IF ok
              THEN [migration EXCEPT !.reqs[r].tx.meals.rows = Append(@, RecipeRow(recipes[m.i])),
                                     !.reqs[r].i = @ + 1, !.reqs[r].pc = next]
              ELSE [migration EXCEPT !.reqs[r].aborted = TRUE,
                                     !.reqs[r].i = @ + 1, !.reqs[r].pc = next]
        /\ UNCHANGED meals
        /\ UNCHANGED <<ai_usage, clock, req, bulk, tagging, taggingInProgress, meals0>>

\* COMMIT installs the working copy and the flag is set, or COMMIT throws
MigrationCommit(r, ok) ==
    LET m == migration.reqs[r]
    IN  /\ m.pc = "commit"
        /\ ok => ~m.aborted
        /\ IF ok
           THEN /\ migration' = [migration EXCEPT !.db = m.tx, !.migrationRun = TRUE,
                                                   !.writer = 0, !.reqs[r].pc = "done"]
                /\ meals' = RecipesOf(m.tx.meals)
           ELSE /\ migration' = [migration EXCEPT !.reqs[r].pc = "rollback",
                                                   !.reqs[r].failedAt = "commit"]
                /\ UNCHANGED meals
        /\ UNCHANGED <<ai_usage, clock, req, bulk, tagging, taggingInProgress, meals0>>

\* the catch block: ROLLBACK, then the 'Migration Failed' page
MigrationRollback(r) ==
    LET m == migration.reqs[r]
    IN  /\ m.pc = "rollback"
        /\ migration' = [migration EXCEPT !.db = RolledBack(migration.db, m.tx),
                                           !.writer = IF @ = r THEN 0 ELSE @,
                                           !.reqs[r].tx = NoTables,
                                           !.reqs[r].pc = "failed"]
        /\ UNCHANGED meals
        /\ UNCHANGED <<ai_usage, clock, req, bulk, tagging, taggingInProgress, meals0>>

\* the server before the migration, over an empty or missing set of old tables
InitMigration ==
    /\ meals = <<>>
    /\ meals0 = meals
    /\ ai_usage = <<>>
    /\ clock = 0
    /\ req = [p \in Requests |-> IdleRequest]
    /\ bulk = IdleJob
    /\ tagging = [r \in TaggingRequests |-> IdleJob]
    /\ taggingInProgress = FALSE
    /\ \E d \in OldDatabases, f \in RecipeFiles :
           migration = [Migrated EXCEPT !.db = d, !.db0 = d, !.recipesJson = f]

NextMigration ==
    \/ \E r \in MigrationRequests : MigrationArrive(r)
    \/ \E r \in MigrationRequests, ok \in BOOLEAN : MigrationTableCheck(r, ok)
    \/ \E r \in MigrationRequests, ok \in BOOLEAN : MigrationStatement(r, ok)
    \/ \E r \in MigrationRequests, ok \in BOOLEAN : MigrationImportRecipe(r, ok)
    \/ \E r \in MigrationRequests, ok \in BOOLEAN : MigrationCommit(r, ok)
    \/ \E r \in MigrationRequests : MigrationRollback(r)

SpecMigration == InitMigration /\ [][NextMigration]_vars

\* the rows of the committed meals table that were copied from order o
TakeoutCopies(o) ==
    {i \in 1..Len(migration.db.meals.rows) :
        /\ migration.db.meals.rows[i].meal_type = "takeout"
        /\ migration.db.meals.rows[i].order = o}

\* C30: a step in which a migration request fails, and every step before it,
\* leaves the committed tables, their rows and the flag migrationRun as they
\* were: the tables change only when a COMMIT succeeds, and the flag is set
\* only by a request that committed or found the meals table; as long as no
\* request has committed the database is the one the model started with; over
\* every interleaving of requests at most one commits, and every order has at
\* most one copy in meals.
C30_MigrationAtomicOnce ==
    /\ [][migration'.db # migration.db =>
             \E r \in MigrationRequests :
                 migration.reqs[r].pc = "commit" /\ migration'.reqs[r].pc = "done"]_vars
    /\ [][\A r \in MigrationRequests :
             (migration'.reqs[r] # migration.reqs[r]
              /\ migration'.reqs[r].pc \in {"rollback", "failed"}) =>
                 /\ migration'.db = migration.db
                 /\ migration'.migrationRun = migration.migrationRun
                 /\ meals' = meals]_vars
    /\ []((\A r \in MigrationRequests : migration.reqs[r].pc # "done") =>
              migration.db = migration.db0)
    /\ [](migration.migrationRun => migration.db.meals.exists)
    /\ [](Cardinality({r \in MigrationRequests : migration.reqs[r].pc = "done"}) <= 1)
    /\ [](\A o \in 1..MaxOrders : Cardinality(TakeoutCopies(o)) <= 1)

\* C30 witness: one request failed at its last statement, after it had copied
\* the orders and renamed the old tables in its transaction; a second request
\* then migrated both orders; a third was told the migration is complete.
C30_Witness ==
    \E a, b, c \in MigrationRequests :
        /\ migration.reqs[a].pc = "failed" /\ migration.reqs[a].failedAt = "stats"
        /\ migration.reqs[b].pc = "done"
        /\ migration.reqs[c].pc = "already"
        /\ migration.migrationRun
        /\ ~migration.db.orders.exists /\ migration.db.orders_backup.rows = <<1, 2>>
        /\ Cardinality(TakeoutCopies(1)) = 1 /\ Cardinality(TakeoutCopies(2)) = 1
        /\ Len(meals) = 1
====
